---- MODULE Spec2Model ----
(***************************************************************************)
(* bb-service-rs: the HTTP client of the bb proving service                *)
(* (BbServiceClient: generate_proof, verify_proof, health_check) and the   *)
(* circuit file loader load_circuit_definition, src/bb-service-rs/src/     *)
(* lib.rs.                                                                 *)
(*                                                                         *)
(* JSON texts are sequences of tokens; serde_json's parse and the derived  *)
(* Deserialize implementations are operators over them.  Every async       *)
(* function is cut at its await points: one action issues the request,     *)
(* one resumes the function when send() resolves, one when json()          *)
(* resolves.                                                               *)
(***************************************************************************)
EXTENDS Integers, Sequences, FiniteSets, Bags, TLC

VARIABLES base_url, calls, last, silent, fs, loaded

vars == <<base_url, calls, last, silent, fs, loaded>>

---------------------------------------------------------------------------
(* JSON text: tokens *)

P(s) == [k |-> "punct", s |-> s, n |-> 0]
S(s) == [k |-> "string", s |-> s, n |-> 0]
N(n) == [k |-> "number", s |-> "", n |-> n]
L(s) == [k |-> "literal", s |-> s, n |-> 0]
W(s) == [k |-> "garbage", s |-> s, n |-> 0]

(* JSON values: serde_json::Value *)

EmptyMap == [x \in {} |-> 0]

JNull == [t |-> "null", s |-> "", n |-> 0, b |-> FALSE, items |-> <<>>, members |-> EmptyMap]
JBool(b) == [JNull EXCEPT !.t = "bool", !.b = b]
JNum(n) == [JNull EXCEPT !.t = "number", !.n = n]
JStr(s) == [JNull EXCEPT !.t = "string", !.s = s]
JArr(items) == [JNull EXCEPT !.t = "array", !.items = items]
JObj(members) == [JNull EXCEPT !.t = "object", !.members = members]

is_object(v) == v.t = "object"
contains_key(v, key) == key \in DOMAIN v.members

(* serde_json::from_str: a recursive descent over the tokens.  A result is *)
(* [ok, val, next]: next is the index of the first token not consumed.     *)

ParseFail == [ok |-> FALSE, val |-> JNull, next |-> 0]
ParseOk(v, next) == [ok |-> TRUE, val |-> v, next |-> next]

RECURSIVE ParseValue(_, _)
RECURSIVE ParseItems(_, _, _)
RECURSIVE ParseMembers(_, _, _)

ParseValue(t, i) ==
    IF i > Len(t) THEN ParseFail
    ELSE LET tok == t[i] IN
         CASE tok.k = "string" -> ParseOk(JStr(tok.s), i + 1)
           [] tok.k = "number" -> ParseOk(JNum(tok.n), i + 1)
           [] tok.k = "literal" ->
                IF tok.s = "null" THEN ParseOk(JNull, i + 1)
                ELSE ParseOk(JBool(tok.s = "true"), i + 1)
           [] tok = P("[") ->
                IF i + 1 <= Len(t) /\ t[i + 1] = P("]")
                THEN ParseOk(JArr(<<>>), i + 2)
                ELSE ParseItems(t, i + 1, <<>>)
           [] tok = P("{") ->
                IF i + 1 <= Len(t) /\ t[i + 1] = P("}")
                THEN ParseOk(JObj(EmptyMap), i + 2)
                ELSE ParseMembers(t, i + 1, EmptyMap)
           [] OTHER -> ParseFail

ParseItems(t, i, acc) ==
    LET r == ParseValue(t, i) IN
    IF ~r.ok \/ r.next > Len(t) THEN ParseFail
    ELSE IF t[r.next] = P(",") THEN ParseItems(t, r.next + 1, Append(acc, r.val))
    ELSE IF t[r.next] = P("]") THEN ParseOk(JArr(Append(acc, r.val)), r.next + 1)
    ELSE ParseFail

(* A key met twice keeps its last value, as serde_json's Map::insert does. *)
ParseMembers(t, i, acc) ==
    IF i + 1 > Len(t) THEN ParseFail
    ELSE IF t[i].k # "string" \/ t[i + 1] # P(":") THEN ParseFail
    ELSE LET r == ParseValue(t, i + 2) IN
         IF ~r.ok \/ r.next > Len(t) THEN ParseFail
         ELSE LET acc2 == (t[i].s :> r.val) @@ acc IN
              IF t[r.next] = P(",") THEN ParseMembers(t, r.next + 1, acc2)
              ELSE IF t[r.next] = P("}") THEN ParseOk(JObj(acc2), r.next + 1)
              ELSE ParseFail

(* The whole text must be one value: trailing tokens are an error. *)
from_str(t) ==
    LET r == ParseValue(t, 1) IN
    IF r.ok /\ r.next = Len(t) + 1 THEN [ok |-> TRUE, val |-> r.val]
    ELSE [ok |-> FALSE, val |-> JNull]

---------------------------------------------------------------------------
(* The derived Deserialize implementations.  A decode result is            *)
(* [ok, ...fields]; serde_json reads a struct from a JSON object (unknown  *)
(* keys are skipped) or from a JSON array of exactly its fields in order.  *)

(* String *)
DeString(v) == v.t = "string"

(* bool *)
DeBool(v) == v.t = "bool"

(* Option<String>: null is None *)
DeOptionString(v) == v.t \in {"null", "string"}
OptionOf(v) == [some |-> v.t = "string", s |-> v.s]
None == [some |-> FALSE, s |-> ""]

(* Vec<u8>: an array of numbers 0..255 *)
DeBytes(v) ==
    /\ v.t = "array"
    /\ \A i \in 1..Len(v.items) :
          /\ v.items[i].t = "number"
          /\ v.items[i].n >= 0
          /\ v.items[i].n <= 255
BytesOf(v) == [i \in 1..Len(v.items) |-> v.items[i].n]

(* The value of field number idx, named key, of a struct read from v. *)
HasField(v, key, idx) ==
    \/ v.t = "object" /\ key \in DOMAIN v.members
    \/ v.t = "array" /\ idx <= Len(v.items)
Field(v, key, idx) == IF v.t = "object" THEN v.members[key] ELSE v.items[idx]
StructShape(v, nfields) ==
    \/ v.t = "object"
    \/ v.t = "array" /\ Len(v.items) = nfields

NoProofData == [proof |-> <<>>, public_inputs |-> <<>>]

(* Mutant: publicInputs may be missing and is then empty. *)
DeProofDataDefaulted(v) ==
    IF /\ StructShape(v, 2)
       /\ HasField(v, "proof", 1) /\ DeBytes(Field(v, "proof", 1))
       /\ HasField(v, "publicInputs", 2) => DeBytes(Field(v, "publicInputs", 2))
    THEN [ok |-> TRUE,
          val |-> [proof |-> BytesOf(Field(v, "proof", 1)),
                   public_inputs |-> IF HasField(v, "publicInputs", 2)
                                     THEN BytesOf(Field(v, "publicInputs", 2))
                                     ELSE <<>>]]
    ELSE [ok |-> FALSE, val |-> NoProofData]

DeProofData(v) ==
    IF /\ StructShape(v, 2)
       /\ HasField(v, "proof", 1) /\ DeBytes(Field(v, "proof", 1))
       /\ HasField(v, "publicInputs", 2) /\ DeBytes(Field(v, "publicInputs", 2))
    THEN [ok |-> TRUE,
          val |-> [proof |-> BytesOf(Field(v, "proof", 1)),
                   public_inputs |-> BytesOf(Field(v, "publicInputs", 2))]]
    ELSE [ok |-> FALSE, val |-> NoProofData]

(* Mutant: message may be missing. *)
DeProveResponseMessageOptional(v) ==
    IF /\ StructShape(v, 2)
       /\ HasField(v, "message", 1) => DeString(Field(v, "message", 1))
       /\ HasField(v, "proof", 2) /\ DeProofData(Field(v, "proof", 2)).ok
    THEN [ok |-> TRUE,
          message |-> IF HasField(v, "message", 1) THEN Field(v, "message", 1).s ELSE "",
          proof |-> DeProofData(Field(v, "proof", 2)).val]
    ELSE [ok |-> FALSE, message |-> "", proof |-> NoProofData]

DeProveResponse(v) ==
    IF /\ StructShape(v, 2)
       /\ HasField(v, "message", 1) /\ DeString(Field(v, "message", 1))
       /\ HasField(v, "proof", 2) /\ DeProofData(Field(v, "proof", 2)).ok
    THEN [ok |-> TRUE, message |-> Field(v, "message", 1).s,
          proof |-> DeProofData(Field(v, "proof", 2)).val]
    ELSE [ok |-> FALSE, message |-> "", proof |-> NoProofData]

DeVerifyResponse(v) ==
    IF /\ StructShape(v, 2)
       /\ HasField(v, "message", 1) /\ DeString(Field(v, "message", 1))
       /\ HasField(v, "isValid", 2) /\ DeBool(Field(v, "isValid", 2))
    THEN [ok |-> TRUE, message |-> Field(v, "message", 1).s,
          is_valid |-> Field(v, "isValid", 2).b]
    ELSE [ok |-> FALSE, message |-> "", is_valid |-> FALSE]

(* details is an Option: a missing key is None; in the array form the      *)
(* element must be there.                                                  *)
DeErrorResponse(v) ==
    IF /\ StructShape(v, 2)
       /\ HasField(v, "error", 1) /\ DeString(Field(v, "error", 1))
       /\ \/ v.t = "object" /\ "details" \notin DOMAIN v.members
          \/ HasField(v, "details", 2) /\ DeOptionString(Field(v, "details", 2))
    THEN [ok |-> TRUE, error |-> Field(v, "error", 1).s,
          details |-> IF HasField(v, "details", 2)
                      THEN OptionOf(Field(v, "details", 2)) ELSE None]
    ELSE [ok |-> FALSE, error |-> "", details |-> None]

unwrap_or_default(o) == IF o.some THEN o.s ELSE ""

---------------------------------------------------------------------------
(* Sample JSON texts *)

LBrace == P("{")
RBrace == P("}")
LBrack == P("[")
RBrack == P("]")
Colon == P(":")
Comma == P(",")

Member(key, valueText) == <<S(key), Colon>> \o valueText
Object1(m1) == <<LBrace>> \o m1 \o <<RBrace>>
Object2(m1, m2) == <<LBrace>> \o m1 \o <<Comma>> \o m2 \o <<RBrace>>
Object3(m1, m2, m3) == <<LBrace>> \o m1 \o <<Comma>> \o m2 \o <<Comma>> \o m3 \o <<RBrace>>

ProofText == Object2(Member("proof", <<LBrack, N(1), Comma, N(2), Comma, N(3), RBrack>>),
                     Member("publicInputs", <<LBrack, N(4), Comma, N(5), Comma, N(6), RBrack>>))
ProofText2 == Object2(Member("publicInputs", <<LBrack, RBrack>>),
                      Member("proof", <<LBrack, N(255), RBrack>>))
BadByteText == Object2(Member("proof", <<LBrack, N(256), RBrack>>),
                       Member("publicInputs", <<LBrack, RBrack>>))

ProveOkText == Object2(Member("message", <<S("ok")>>), Member("proof", ProofText))
ProveOk2Text == Object3(Member("proof", ProofText2), Member("message", <<S("done")>>),
                        Member("elapsed", <<N(12)>>))
ProveNoMessageText == Object1(Member("proof", ProofText))
ProveBadByteText == Object2(Member("message", <<S("ok")>>), Member("proof", BadByteText))
VerifyTrueText == Object2(Member("message", <<S("ok")>>), Member("isValid", <<L("true")>>))
VerifyFalseText == Object2(Member("message", <<S("invalid proof")>>),
                           Member("isValid", <<L("false")>>))
VerifyNoMessageText == Object1(Member("isValid", <<L("true")>>))
VerifyWrongTypeText == Object2(Member("message", <<S("ok")>>),
                               Member("isValid", <<S("true")>>))
ErrFullText == Object2(Member("error", <<S("bad circuit")>>),
                       Member("details", <<S("missing gate")>>))
ErrNoDetailsText == Object1(Member("error", <<S("bad circuit")>>))
ErrNullDetailsText == Object2(Member("error", <<S("overloaded")>>),
                              Member("details", <<L("null")>>))
ErrWrongTypeText == Object2(Member("error", <<N(7)>>), Member("details", <<S("missing gate")>>))
ErrArrayText == <<LBrack, S("bad circuit"), Comma, S("missing gate"), RBrack>>
HtmlText == <<W("<html>"), W("Bad"), W("Gateway"), W("</html>")>>
EmptyText == <<>>
PartialProofText == Object1(Member("proof", <<LBrack, N(1), Comma, N(2), Comma, N(3), RBrack>>))
ProvePartialText == Object2(Member("message", <<S("ok")>>), Member("proof", PartialProofText))

(* The bodies the service may send, by name. *)
BodyText ==
    ("ProveOk" :> ProveOkText) @@ ("ProveOk2" :> ProveOk2Text)
      @@ ("ProveNoMessage" :> ProveNoMessageText) @@ ("ProveBadByte" :> ProveBadByteText)
      @@ ("ProvePartial" :> ProvePartialText)
      @@ ("VerifyTrue" :> VerifyTrueText) @@ ("VerifyFalse" :> VerifyFalseText)
      @@ ("VerifyNoMessage" :> VerifyNoMessageText)
      @@ ("VerifyWrongType" :> VerifyWrongTypeText)
      @@ ("ErrFull" :> ErrFullText) @@ ("ErrNoDetails" :> ErrNoDetailsText)
      @@ ("ErrNullDetails" :> ErrNullDetailsText) @@ ("ErrWrongType" :> ErrWrongTypeText)
      @@ ("ErrArray" :> ErrArrayText) @@ ("Html" :> HtmlText)

BodyNames == DOMAIN BodyText

(* The parse of each body, computed once. *)
ParsedBody == [name \in BodyNames |-> from_str(BodyText[name])]

---------------------------------------------------------------------------
(* load_circuit_definition *)

CircuitText == Object2(Member("bytecode", <<S("H4sIAAAA")>>),
                       Member("abi", Object1(Member("parameters", <<LBrack, RBrack>>))))
CircuitOddText == Object3(Member("noir_version", <<S("1.0.0")>>),
                          Member("abi", <<L("null")>>),
                          Member("bytecode", <<LBrack, N(1), RBrack>>))
CircuitDupText == Object3(Member("abi", <<N(1)>>), Member("bytecode", <<N(2)>>),
                          Member("abi", <<N(3)>>))
NoAbiText == Object1(Member("bytecode", <<S("H4sIAAAA")>>))
NoBytecodeText == Object2(Member("abi", <<LBrace, RBrace>>), Member("name", <<S("main")>>))
NestedText == Object1(Member("circuit", CircuitText))
EmptyObjectText == <<LBrace, RBrace>>
ArrayText == <<LBrack>> \o CircuitText \o <<RBrack>>
StringText == <<S("bytecode")>>
NumberText == <<N(42)>>
NullText == <<L("null")>>
TruncatedText == SubSeq(CircuitText, 1, Len(CircuitText) - 1)
TrailingText == CircuitText \o <<RBrace>>
TrailingCommaText == <<LBrace>> \o Member("bytecode", <<N(1)>>) \o <<Comma>>
                       \o Member("abi", <<N(2)>>) \o <<Comma, RBrace>>
NumberKeyText == <<LBrace, N(1), Colon, N(2), RBrace>>

File(text) == [readable |-> TRUE, cause |-> "", text |-> text]
Unreadable(cause) == [readable |-> FALSE, cause |-> cause, text |-> <<>>]

Files ==
    { File(t) : t \in { CircuitText, CircuitOddText, CircuitDupText, NoAbiText,
                        NoBytecodeText, NestedText, EmptyObjectText, ArrayText,
                        StringText, NumberText, NullText, TruncatedText, TrailingText,
                        TrailingCommaText, NumberKeyText, HtmlText, EmptyText } }
    \cup { Unreadable("No such file or directory (os error 2)"),
           Unreadable("stream did not contain valid UTF-8") }

Paths == {"circuit.json", "target/main.json"}

AnyhowErr(msg) == [ok |-> FALSE, err |-> msg, val |-> JNull]
AnyhowOk(v) == [ok |-> TRUE, err |-> "", val |-> v]

(* Mutant: the key check fails only when both keys are missing. *)
LoadEitherKeySuffices(files, path) ==
    IF ~files[path].readable
    THEN AnyhowErr("Failed to read circuit file " \o path \o ": " \o files[path].cause)
    ELSE LET circuit_json == from_str(files[path].text) IN
         IF ~circuit_json.ok THEN AnyhowErr("Failed to parse circuit JSON: syntax error")
         ELSE IF ~is_object(circuit_json.val)
              THEN AnyhowErr("Circuit JSON must be an object")
         ELSE IF /\ ~contains_key(circuit_json.val, "bytecode")
                 /\ ~contains_key(circuit_json.val, "abi")
              THEN AnyhowErr("Circuit JSON must contain 'bytecode' and 'abi' fields")
         ELSE AnyhowOk(circuit_json.val)

load_circuit_definition(files, path) ==
    IF ~files[path].readable
    THEN AnyhowErr("Failed to read circuit file " \o path \o ": " \o files[path].cause)
    ELSE LET circuit_json == from_str(files[path].text) IN
         IF ~circuit_json.ok THEN AnyhowErr("Failed to parse circuit JSON: syntax error")
         ELSE IF ~is_object(circuit_json.val)
              THEN AnyhowErr("Circuit JSON must be an object")
         ELSE IF \/ ~contains_key(circuit_json.val, "bytecode")
                 \/ ~contains_key(circuit_json.val, "abi")
              THEN AnyhowErr("Circuit JSON must contain 'bytecode' and 'abi' fields")
         ELSE AnyhowOk(circuit_json.val)

NotLoaded == [path |-> "", res |-> AnyhowErr("")]

---------------------------------------------------------------------------
(* BbServiceClient *)

MaxCalls == 2

Ops == {"generate_proof", "verify_proof", "health_check"}

BaseUrls == {"http://localhost:3000", "https://bb.example/api/"}

Statuses == {200, 302, 503}

(* What the transport hands back when send() resolves: an error, or the    *)
(* response head with its status.                                          *)
SendOutcomes ==
    {[ok |-> FALSE, status |-> 0]} \cup {[ok |-> TRUE, status |-> st] : st \in Statuses}

(* What the body stream gives: the whole text, or a failure part-way.      *)
NoBody == [st |-> "none", name |-> ""]
BodyOutcomes ==
    {[st |-> "failed", name |-> ""]}
        \cup {[st |-> "complete", name |-> name] : name \in BodyNames}

(* Result<ProofData, BbServiceError> and Result<bool, BbServiceError> *)
NoResult ==
    [tag |-> "none", ty |-> "", proof |-> NoProofData, b |-> FALSE, cause |-> "", msg |-> ""]
OkProofData(pd) == [NoResult EXCEPT !.tag = "Ok", !.ty = "ProofData", !.proof = pd]
OkBool(b) == [NoResult EXCEPT !.tag = "Ok", !.ty = "bool", !.b = b]
ErrRequest(cause) == [NoResult EXCEPT !.tag = "Request", !.cause = cause]
ErrService(msg) == [NoResult EXCEPT !.tag = "Service", !.msg = msg]
ErrInvalidResponse == [NoResult EXCEPT !.tag = "InvalidResponse"]

(* StatusCode::is_success *)
is_success(status) == status >= 200 /\ status < 300

(* Response::json: read the whole body, then parse it. *)
json(body) ==
    IF body.st # "complete" THEN [ok |-> FALSE, cause |-> "transport", val |-> JNull]
    ELSE LET p == ParsedBody[body.name] IN
         IF p.ok THEN [ok |-> TRUE, cause |-> "", val |-> p.val]
         ELSE [ok |-> FALSE, cause |-> "decode", val |-> JNull]

(* Mutant: without details the message is the error alone. *)
ServiceMessageOmitsSeparator(error_response) ==
    IF error_response.details.some
    THEN error_response.error \o ": " \o error_response.details.s
    ELSE error_response.error

ServiceMessage(error_response) ==
    error_response.error \o ": " \o unwrap_or_default(error_response.details)

(* Mutant: the error of json() is propagated with ? instead of map_err. *)
ErrorBranchPropagates(body) ==
    LET j == json(body) IN
    IF ~j.ok THEN ErrRequest(j.cause)
    ELSE IF ~DeErrorResponse(j.val).ok THEN ErrRequest("decode")
    ELSE ErrService(ServiceMessage(DeErrorResponse(j.val)))

(* The non-success branch, the same in generate_proof and verify_proof:    *)
(* whatever made json() fail, the error is dropped for InvalidResponse.    *)
ErrorBranch(body) ==
    LET j == json(body) IN
    IF j.ok /\ DeErrorResponse(j.val).ok
    THEN ErrService(ServiceMessage(DeErrorResponse(j.val)))
    ELSE ErrInvalidResponse

generate_proof_response(status, body) ==
    IF is_success(status)
    THEN LET j == json(body) IN
         IF ~j.ok THEN ErrRequest(j.cause)
         ELSE IF ~DeProveResponse(j.val).ok THEN ErrRequest("decode")
         ELSE OkProofData(DeProveResponse(j.val).proof)
    ELSE ErrorBranch(body)

(* Mutant: a proof the service found invalid is reported as an error. *)
VerifyInvalidIsError(status, body) ==
    IF is_success(status)
    THEN LET j == json(body) IN
         IF ~j.ok THEN ErrRequest(j.cause)
         ELSE IF ~DeVerifyResponse(j.val).ok THEN ErrRequest("decode")
         ELSE IF ~DeVerifyResponse(j.val).is_valid
              THEN ErrService(DeVerifyResponse(j.val).message)
         ELSE OkBool(TRUE)
    ELSE ErrorBranch(body)

verify_proof_response(status, body) ==
    IF is_success(status)
    THEN LET j == json(body) IN
         IF ~j.ok THEN ErrRequest(j.cause)
         ELSE IF ~DeVerifyResponse(j.val).ok THEN ErrRequest("decode")
         ELSE OkBool(DeVerifyResponse(j.val).is_valid)
    ELSE ErrorBranch(body)

(* Mutant: a redirect counts as healthy. *)
HealthyBelow400(status) == OkBool(status >= 200 /\ status < 400)

health_check_response(status) == OkBool(is_success(status))

(* The request each operation builds. *)
RequestOf(op) ==
    CASE op = "generate_proof" -> [method |-> "POST", url |-> base_url \o "/prove"]
      [] op = "verify_proof" -> [method |-> "POST", url |-> base_url \o "/verify"]
      [] op = "health_check" -> [method |-> "GET", url |-> base_url \o "/health"]

(* A call in flight: the operation, the request it sent, how many requests *)
(* it has sent, the await it is suspended at and the status once known.    *)
Pending(c) == CopiesIn(c, calls) > 0

NoLast ==
    [op |-> "none", method |-> "", url |-> "", nreq |-> 0, received |-> FALSE,
     status |-> 0, body |-> NoBody, result |-> NoResult]

(* Mutant: an Ok result of the same operation is kept and handed out again. *)
ReturnCached(c, received, status, body, result) ==
    /\ calls' = calls (-) SetToBag({c})
    /\ last' = [op |-> c.op, method |-> c.method, url |-> c.url, nreq |-> c.nreq,
                received |-> received, status |-> status, body |-> body,
                result |-> IF last.op = c.op /\ last.result.tag = "Ok"
                           THEN last.result ELSE result]

(* The call returns: its future is gone, its outcome goes to the caller. *)
Return(c, received, status, body, result) ==
    /\ calls' = calls (-) SetToBag({c})
    /\ last' = [op |-> c.op, method |-> c.method, url |-> c.url, nreq |-> c.nreq,
                received |-> received, status |-> status, body |-> body,
                result |-> result]

(* Mutant: the request is sent again after a transport error. *)
SendFailedRetries(c) ==
    /\ calls' = (calls (-) SetToBag({c})) (+) SetToBag({[c EXCEPT !.nreq = @ + 1]})
    /\ UNCHANGED last

(* send().await?  on a transport error *)
SendFailed(c) == Return(c, FALSE, 0, NoBody, ErrRequest("transport"))

(* A caller invokes op on the shared client: the request is built and sent. *)
Invoke(op) ==
    /\ BagCardinality(calls) < MaxCalls
    /\ calls' = calls (+) SetToBag({[pc |-> "awaitSend", op |-> op,
                                     method |-> RequestOf(op).method,
                                     url |-> RequestOf(op).url, nreq |-> 1,
                                     status |-> 0]})
    /\ UNCHANGED <<base_url, last, silent, fs, loaded>>

(* send() resolves and the function runs on to its next await or its end.  *)
(* health_check ends here: the body the service sent is never read.        *)
SendResolves(c) ==
    /\ Pending(c)
    /\ c.pc = "awaitSend"
    /\ ~silent
    /\ \E o \in SendOutcomes :
          IF ~o.ok THEN SendFailed(c)
          ELSE IF c.op = "health_check"
               THEN \E unread \in BodyOutcomes :
                       Return(c, TRUE, o.status, unread, health_check_response(o.status))
               ELSE /\ calls' = (calls (-) SetToBag({c}))
                                   (+) SetToBag({[c EXCEPT !.pc = "awaitBody",
                                                           !.status = o.status]})
                    /\ UNCHANGED last
    /\ UNCHANGED <<base_url, silent, fs, loaded>>

(* response.json() resolves and the function returns. *)
BodyResolves(c) ==
    /\ Pending(c)
    /\ c.pc = "awaitBody"
    /\ ~silent
    /\ \E body \in BodyOutcomes :
          Return(c, TRUE, c.status, body,
                 IF c.op = "generate_proof"
                 THEN generate_proof_response(c.status, body)
                 ELSE verify_proof_response(c.status, body))
    /\ UNCHANGED <<base_url, silent, fs, loaded>>

(* The service keeps the connections open and stops answering: Client::new() *)
(* sets no timeout, so nothing resolves a pending await from here on.        *)
ServiceGoesSilent ==
    /\ ~silent
    /\ silent' = TRUE
    /\ UNCHANGED <<base_url, calls, last, fs, loaded>>

(* load_circuit_definition(path) is called. *)
Load(path) ==
    /\ loaded' = [path |-> path, res |-> load_circuit_definition(fs, path)]
    /\ UNCHANGED <<base_url, calls, last, silent, fs>>

DefaultFs == [p \in Paths |-> File(CircuitText)]

(* BbServiceClient::new(base_url) or new_localhost() *)
Init ==
    /\ base_url \in BaseUrls
    /\ calls = EmptyBag
    /\ last = NoLast
    /\ silent = FALSE
    /\ fs = DefaultFs
    /\ loaded = NotLoaded

Next ==
    \/ \E op \in Ops : Invoke(op)
    \/ \E c \in BagToSet(calls) : SendResolves(c)
    \/ \E c \in BagToSet(calls) : BodyResolves(c)
    \/ ServiceGoesSilent

Spec == Init /\ [][Next]_vars

(* The loader alone, over every file system of the sample files. *)
LoadInit ==
    /\ base_url = "http://localhost:3000"
    /\ calls = EmptyBag
    /\ last = NoLast
    /\ silent = FALSE
    /\ fs \in [Paths -> Files]
    /\ loaded = NotLoaded

LoadNext == \E path \in Paths : Load(path)

LoadSpec == LoadInit /\ [][LoadNext]_vars

---------------------------------------------------------------------------
(* What the claims speak of, stated over the last returned call. *)

PostOps == {"generate_proof", "verify_proof"}

Returned == last.op # "none"
ReturnedPost == last.op \in PostOps
GotSuccess == last.received /\ last.status \in 200..299
GotNonSuccess == last.received /\ last.status \notin 200..299
BodyRead == last.body.st = "complete"
BodyIsJson == BodyRead /\ ParsedBody[last.body.name].ok
BodyValue == ParsedBody[last.body.name].val

HasString(v, key) == key \in DOMAIN v.members /\ v.members[key].t = "string"
HasBool(v, key) == key \in DOMAIN v.members /\ v.members[key].t = "bool"
IsByteArray(v) ==
    /\ v.t = "array"
    /\ \A i \in DOMAIN v.items : v.items[i].t = "number" /\ v.items[i].n \in 0..255
HasBytes(v, key) == key \in DOMAIN v.members /\ IsByteArray(v.members[key])
NumbersOf(v) == [i \in DOMAIN v.items |-> v.items[i].n]

(* An object with a string `error` and a `details` that is missing, null   *)
(* or a string.                                                            *)
ErrorObject(v) ==
    /\ v.t = "object"
    /\ HasString(v, "error")
    /\ \/ "details" \notin DOMAIN v.members
       \/ v.members["details"].t \in {"null", "string"}
DetailsOrEmpty(v) ==
    IF "details" \in DOMAIN v.members /\ v.members["details"].t = "string"
    THEN v.members["details"].s ELSE ""

(* An object with a string `message` and a `proof` object holding the byte *)
(* arrays `proof` and `publicInputs`.                                      *)
ProveObject(v) ==
    /\ v.t = "object"
    /\ HasString(v, "message")
    /\ "proof" \in DOMAIN v.members
    /\ v.members["proof"].t = "object"
    /\ HasBytes(v.members["proof"], "proof")
    /\ HasBytes(v.members["proof"], "publicInputs")

(* An object with a string `message` and a boolean `isValid`. *)
VerifyObject(v) ==
    /\ v.t = "object"
    /\ HasString(v, "message")
    /\ HasBool(v, "isValid")

---------------------------------------------------------------------------
(* C1: generate_proof and verify_proof, on a non-success status (3xx       *)
(* included) whose body is an object with a string `error` and an optional *)
(* string `details`, fail with Service(error ++ ": " ++ details), details  *)
(* being "" when absent; never Ok, Request or InvalidResponse.             *)
C1_ServiceMessage ==
    (ReturnedPost /\ GotNonSuccess /\ BodyIsJson /\ ErrorObject(BodyValue))
        => last.result = ErrService(BodyValue.members["error"].s \o ": "
                                      \o DetailsOrEmpty(BodyValue))

(* verify_proof got a 302 with {"error":"bad circuit"}: the message ends in ": ". *)
C1_Witness ==
    /\ last.op = "verify_proof"
    /\ last.status = 302
    /\ last.body.name = "ErrNoDetails" /\ BodyText["ErrNoDetails"] = ErrNoDetailsText
    /\ last.result = ErrService("bad circuit: ")

C3_HealthCheck ==
    last.op = "health_check" =>
        /\ (last.result = OkBool(TRUE)) <=> GotSuccess
        /\ (last.result = OkBool(FALSE)) <=> GotNonSuccess
        /\ (last.result = ErrRequest("transport")) <=> ~last.received
        /\ last.result.tag \in {"Ok", "Request"}

(* health_check got a 302 whose body is a well-formed proof: Ok(false). *)
C3_Witness ==
    /\ last.op = "health_check"
    /\ last.status = 302
    /\ last.body.name = "ProveOk" /\ BodyText["ProveOk"] = ProveOkText
    /\ last.result = OkBool(FALSE)

(* C4: on a 2xx response with a well-formed body, generate_proof returns   *)
(* the body's proof object (proof and publicInputs bytes, unmodified) and  *)
(* verify_proof returns the body's isValid, false included; message plays  *)
(* no part.                                                                *)
C4_SuccessValue ==
    /\ (last.op = "generate_proof" /\ GotSuccess /\ BodyIsJson /\ ProveObject(BodyValue))
          => last.result =
                OkProofData([proof |-> NumbersOf(BodyValue.members["proof"].members["proof"]),
                             public_inputs |->
                                NumbersOf(BodyValue.members["proof"].members["publicInputs"])])
    /\ (last.op = "verify_proof" /\ GotSuccess /\ BodyIsJson /\ VerifyObject(BodyValue))
          => last.result = OkBool(BodyValue.members["isValid"].b)

(* verify_proof got a 200 saying isValid=false: Ok(false), no error. *)
C4_Witness ==
    /\ last.op = "verify_proof"
    /\ last.status = 200
    /\ last.body.name = "VerifyFalse" /\ BodyText["VerifyFalse"] = VerifyFalseText
    /\ last.result = OkBool(FALSE)

(* C5: on a 2xx response whose body was read and does not decode as the    *)
(* success shape (not JSON, or an object with `message`, `proof`,          *)
(* `publicInputs` or `isValid` missing or of the wrong type),               *)
(* generate_proof and verify_proof fail with a Request error from the      *)
(* decoder; a body with a good `proof` or `isValid` and no `message` fails.*)
C5_DecodeFailure ==
    /\ (last.op = "generate_proof" /\ GotSuccess /\ BodyRead
          /\ \/ ~BodyIsJson
             \/ BodyValue.t # "array" /\ ~ProveObject(BodyValue)
             \/ ~DeProveResponse(BodyValue).ok)
          => last.result = ErrRequest("decode")
    /\ (last.op = "verify_proof" /\ GotSuccess /\ BodyRead
          /\ \/ ~BodyIsJson
             \/ BodyValue.t # "array" /\ ~VerifyObject(BodyValue)
             \/ ~DeVerifyResponse(BodyValue).ok)
          => last.result = ErrRequest("decode")

(* generate_proof got a 200 with a good proof and no message. *)
C5_Witness ==
    /\ last.op = "generate_proof"
    /\ last.status = 200
    /\ last.body.name = "ProveNoMessage" /\ BodyText["ProveNoMessage"] = ProveNoMessageText
    /\ last.result = ErrRequest("decode")

(* C6: a transport failure at any step of generate_proof or verify_proof,  *)
(* while sending or while the body is received and whatever the status,    *)
(* makes the call fail with a Request error, never InvalidResponse or      *)
(* Service.                                                                *)
C6_TransportFailureIsRequest ==
    (ReturnedPost /\ (~last.received \/ last.body.st = "failed"))
        => last.result = ErrRequest("transport")

(* C7: every invocation calls send() exactly once, on POST base_url/prove, *)
(* POST base_url/verify or GET base_url/health with base_url verbatim, and *)
(* sends nothing again after a transport failure, a non-success status or  *)
(* a decode failure: pending and returned calls alike have sent one        *)
(* request.                                                                *)
SentAsSpecified(c) ==
    /\ c.nreq = 1
    /\ c.op = "generate_proof" => c.method = "POST" /\ c.url = base_url \o "/prove"
    /\ c.op = "verify_proof" => c.method = "POST" /\ c.url = base_url \o "/verify"
    /\ c.op = "health_check" => c.method = "GET" /\ c.url = base_url \o "/health"

NotJsonTexts ==
    { TruncatedText, TrailingText, TrailingCommaText, NumberKeyText, HtmlText, EmptyText }
NotObjectTexts == { ArrayText, StringText, NumberText, NullText }
MissingKeyTexts == { NoAbiText, NoBytecodeText, NestedText, EmptyObjectText }
GoodTexts == { CircuitText, CircuitOddText, CircuitDupText }

CircuitOddValue ==
    JObj(("noir_version" :> JStr("1.0.0")) @@ ("abi" :> JNull)
            @@ ("bytecode" :> JArr(<<JNum(1)>>)))

C8_LoadChecksInOrder ==
    loaded.path # "" =>
        LET f == fs[loaded.path]
            r == loaded.res
        IN  /\ f.readable =>
                 f.text \in NotJsonTexts \cup NotObjectTexts \cup MissingKeyTexts \cup GoodTexts
            /\ ~f.readable =>
                 r = AnyhowErr("Failed to read circuit file " \o loaded.path \o ": " \o f.cause)
            /\ (f.readable /\ f.text \in NotJsonTexts) =>
                 r = AnyhowErr("Failed to parse circuit JSON: syntax error")
            /\ (f.readable /\ f.text \in NotObjectTexts) =>
                 r = AnyhowErr("Circuit JSON must be an object")
            /\ (f.readable /\ f.text \in MissingKeyTexts) =>
                 r = AnyhowErr("Circuit JSON must contain 'bytecode' and 'abi' fields")
            /\ (f.readable /\ f.text \in GoodTexts) =>
                 /\ r = AnyhowOk(from_str(f.text).val)
                 /\ {"bytecode", "abi"} \subseteq DOMAIN r.val.members
            /\ (f.readable /\ f.text = CircuitOddText) => r.val = CircuitOddValue
            /\ r.ok => f.readable /\ f.text \in GoodTexts

(* A file whose abi is null, whose bytecode is an array and that has a     *)
(* further key was loaded, next to a file that is a top-level array.       *)
C8_Witness ==
    /\ loaded.path = "circuit.json"
    /\ fs["circuit.json"] = File(CircuitOddText)
    /\ fs["target/main.json"] = File(ArrayText)
    /\ loaded.res = AnyhowOk(CircuitOddValue)

(* C9, as claimed: every invocation eventually returns and never stays     *)
(* pending forever, also when the service accepts the request and never    *)
(* answers: whatever await a pending call is suspended at can resolve.     *)
CanResolve(c) == ENABLED (SendResolves(c) \/ BodyResolves(c))

C9_NeverPendingForever == \A c \in BagToSet(calls) : CanResolve(c)

(* C9, amended: a pending call can return unless the service has stopped   *)
(* answering (no timeout is set, so it then stays pending), and a call     *)
(* that returns has exactly one outcome out of Ok(value), Request, Service *)
(* and InvalidResponse, an Ok value being whole.                           *)
OneWholeOutcome ==
    /\ last.result.tag \in {"Ok", "Request", "Service", "InvalidResponse"}
    /\ last.result.tag = "Ok" =>
          /\ last.result.cause = "" /\ last.result.msg = ""
          /\ last.op = "generate_proof" =>
                /\ last.result.ty = "ProofData" /\ last.result.b = FALSE
                /\ BodyIsJson
                /\ BodyValue.t = "object" => ProveObject(BodyValue)
          /\ last.op # "generate_proof" =>
                last.result.ty = "bool" /\ last.result.proof = NoProofData
    /\ last.result.tag # "Ok" =>
          /\ last.result.ty = "" /\ last.result.proof = NoProofData /\ ~last.result.b
          /\ last.result.msg # "" => last.result.tag = "Service"
          /\ last.result.cause # "" <=> last.result.tag = "Request"

C9_ReturnsUnlessSilent ==
    /\ \A c \in BagToSet(calls) : silent \/ CanResolve(c)
    /\ Returned => OneWholeOutcome

(* The service has stopped answering while a generate_proof call waits for *)
(* its body and a health_check for its response, after a call returned.    *)
C9_Witness ==
    /\ silent
    /\ \E c \in BagToSet(calls) : c.op = "generate_proof" /\ c.pc = "awaitBody"
    /\ \E c \in BagToSet(calls) : c.op = "health_check" /\ c.pc = "awaitSend"
    /\ last.result.tag = "Ok"

(* C10: with any number of calls in flight on one client, in any           *)
(* interleaving, base_url stays what the constructor was given, a step     *)
(* touches one call only, and what a call returns is a function of its own *)
(* operation and of the response to its own request.                       *)
OutcomeOf(op, received, status, body) ==
    IF ~received THEN ErrRequest("transport")
    ELSE CASE op = "generate_proof" -> generate_proof_response(status, body)
           [] op = "verify_proof" -> verify_proof_response(status, body)
           [] op = "health_check" -> health_check_response(status)

OneCallSteps ==
    \/ calls' = calls /\ last' = last
    \/ \E op \in Ops :
          /\ \E c \in BagToSet(calls') : c.op = op /\ calls' = calls (+) SetToBag({c})
          /\ last' = last
    \/ \E c \in BagToSet(calls) :
          \/ /\ calls' = calls (-) SetToBag({c})
             /\ last'.op = c.op /\ last'.url = c.url
          \/ /\ \E d \in BagToSet(calls') :
                   /\ d.op = c.op /\ d.url = c.url
                   /\ calls' = (calls (-) SetToBag({c})) (+) SetToBag({d})
             /\ last' = last

C10_CallsAreIndependent ==
    /\ [](Returned => last.result = OutcomeOf(last.op, last.received, last.status, last.body))
    /\ [][base_url' = base_url /\ OneCallSteps]_vars

(* Two calls of different operations are in flight on the client made by   *)
(* new_localhost() after a third returned Ok.                              *)
C10_Witness ==
    /\ base_url = "http://localhost:3000"
    /\ \E c, d \in BagToSet(calls) : c.op # d.op
    /\ last.result.tag = "Ok"

====
